---- MODULE Spec2Model ----
(***************************************************************************)
(* Model of compatibility_lib/graph.py: the Transition, State and Graph    *)
(* classes of a labelled transition system.                                *)
(*                                                                         *)
(* Python strings are sequences of one-character strings, so that          *)
(* str.split and the substring test `in` are computed, not assumed.        *)
(* An optional value (None or an object) is a sequence of length 0 or 1.   *)
(* A constructor that raises yields no object; raised = TRUE records it.   *)
(* List arguments are values: every State and Graph is given list objects  *)
(* of its own, as a loader building them from parsed data does.            *)
(***************************************************************************)
EXTENDS Integers, Sequences, FiniteSets

VARIABLES t, tCall, tRet, s, sPre, sCall, sRet, g, gInserted, gCall, gRet

tvars == <<t, tCall, tRet>>
svars == <<s, sPre, sCall, sRet>>
gvars == <<g, gInserted, gCall, gRet>>
vars == <<t, tCall, tRet, s, sPre, sCall, sRet, g, gInserted, gCall, gRet>>

\* ------------------------------------------------------------------ bounds

MaxParams == 3
MaxList == 3
MaxStates == 3

\* ------------------------------------------------------------ basic values

None == <<>>
Some(x) == <<x>>

TransitionType == {"TAU", "EMISSION", "RECEPTION"}
StateType == {"INIT", "FINAL", "NORMAL"}

SeqsUpTo(S, n) == UNION {[1..k -> S] : k \in 0..n}

Range(q) == {q[i] : i \in 1..Len(q)}

\* ----------------------------------------------------------------- strings

\* Parameter tokens the loader may hand over: well-formed "name:type"
\* tokens, and tokens that are not of that form.
Tokens ==
    { <<"a", ":", "i">>, <<"b", ":", "s">>, <<"c", ":", "i">>,
      <<"a", "b", ":", "s">>, <<"a">>, <<"a", ":", "i", ":", "s">>,
      <<"b", ":">> }

ParamNames == { <<"a">>, <<"b">>, <<"s">>, <<"x">>, <<>> }

\* Python: sub in str
contains(sub, str) ==
    \E i \in 0..(Len(str) - Len(sub)) : SubSeq(str, i + 1, i + Len(sub)) = sub

\* Python: str.split(sep) for a one-character separator
RECURSIVE split(_, _)
split(str, sep) ==
    IF \E i \in 1..Len(str) : str[i] = sep
    THEN LET i == CHOOSE k \in 1..Len(str) :
                      str[k] = sep /\ \A j \in 1..(k - 1) : str[j] # sep
         IN  <<SubSeq(str, 1, i - 1)>> \o split(SubSeq(str, i + 1, Len(str)), sep)
    ELSE <<str>>

\* -------------------------------------------------------------- Transition

Transition_init_unchecked(name, type, next_state, params) ==
    [raised |-> FALSE,
     self |-> Some([name |-> name, type |-> type,
                    next_state |-> next_state, params |-> params])]

Transition_init(name, type, next_state, params) ==
    IF type = "TAU" /\ params # <<>>
    THEN [raised |-> TRUE, self |-> None]
    ELSE [raised |-> FALSE,
          self |-> Some([name |-> name, type |-> type,
                         next_state |-> next_state, params |-> params])]

\* The for loop of get_param_type: no break, so a later matching token
\* overwrites data_type; param.split(":")[1] raises IndexError when the
\* matching token has no ":".
RECURSIVE get_param_type_loop(_, _, _)
get_param_type_loop(params, param_name, data_type) ==
    IF params = <<>>
    THEN [raised |-> FALSE, value |-> data_type]
    ELSE LET param == Head(params)
             parts == split(param, ":")
         IN  IF contains(param_name, param)
             THEN IF Len(parts) < 2
                  THEN [raised |-> TRUE, value |-> None]
                  ELSE get_param_type_loop(Tail(params), param_name, Some(parts[2]))
             ELSE get_param_type_loop(Tail(params), param_name, data_type)

get_param_type(self, param_name) ==
    get_param_type_loop(self.params, param_name, None)

RECURSIVE get_data_types_loop_all(_, _)
get_data_types_loop_all(params, data_types) ==
    IF params = <<>>
    THEN [raised |-> FALSE, value |-> data_types]
    ELSE LET parts == split(Head(params), ":")
         IN  IF Len(parts) < 2
             THEN [raised |-> TRUE, value |-> <<>>]
             ELSE get_data_types_loop_all(Tail(params), Append(data_types, parts[2]))

get_data_types_keep_duplicates(self) ==
    get_data_types_loop_all(self.params, <<>>)

\* The for loop of get_data_types: param.split(":")[1] raises IndexError
\* when the token has no ":".
RECURSIVE get_data_types_loop(_, _)
get_data_types_loop(params, data_types) ==
    IF params = <<>>
    THEN [raised |-> FALSE, value |-> data_types]
    ELSE LET parts == split(Head(params), ":")
         IN  IF Len(parts) < 2
             THEN [raised |-> TRUE, value |-> <<>>]
             ELSE IF parts[2] \notin Range(data_types)
                  THEN get_data_types_loop(Tail(params), Append(data_types, parts[2]))
                  ELSE get_data_types_loop(Tail(params), data_types)

get_data_types(self) ==
    get_data_types_loop(self.params, <<>>)

NoCall == [op |-> "none"]
NoRet == [raised |-> FALSE, value |-> None]

ParamLists == SeqsUpTo(Tokens, MaxParams)

\* Each behaviour follows one Transition from its constructor call onwards.
NewTransition ==
    /\ tCall = NoCall
    /\ \E type \in TransitionType, params \in ParamLists :
        LET r == Transition_init("t", type, "S1", params)
        IN  /\ t' = r.self
            /\ tCall' = [op |-> "Transition", name |-> "t", type |-> type,
                         next_state |-> "S1", params |-> params]
            /\ tRet' = [raised |-> r.raised, value |-> None]
    /\ UNCHANGED <<svars, gvars>>

GetParamType ==
    /\ t # None
    /\ \E param_name \in ParamNames :
        /\ tCall' = [op |-> "get_param_type", param_name |-> param_name]
        /\ tRet' = get_param_type(t[1], param_name)
    /\ UNCHANGED <<t, svars, gvars>>

GetDataTypes ==
    /\ t # None
    /\ tCall' = [op |-> "get_data_types"]
    /\ tRet' = get_data_types(t[1])
    /\ UNCHANGED <<t, svars, gvars>>

\* ------------------------------------------------------------------- State

State_init_no_initial_check(name, type, incoming, outgoing) ==
    LET inc == IF incoming = None THEN <<>> ELSE incoming[1]
        out == IF outgoing = None THEN <<>> ELSE outgoing[1]
    IN  IF type = "FINAL" /\ out # <<>>
        THEN [raised |-> TRUE, self |-> None]
        ELSE [raised |-> FALSE,
              self |-> Some([name |-> name, type |-> type,
                             incoming |-> inc, outgoing |-> out])]

\* incoming and outgoing are optional list arguments (default None).
State_init(name, type, incoming, outgoing) ==
    LET inc == IF incoming = None THEN <<>> ELSE incoming[1]
        out == IF outgoing = None THEN <<>> ELSE outgoing[1]
    IN  IF type = "INIT" /\ inc # <<>>
        THEN [raised |-> TRUE, self |-> None]
        ELSE IF type = "FINAL" /\ out # <<>>
             THEN [raised |-> TRUE, self |-> None]
             ELSE [raised |-> FALSE,
                   self |-> Some([name |-> name, type |-> type,
                                  incoming |-> inc, outgoing |-> out])]

add_incoming_transition_checks_initial(self, transition) ==
    IF transition = None
    THEN [raised |-> FALSE, self |-> self]
    ELSE IF self.type = "INIT"
         THEN [raised |-> TRUE, self |-> self]
         ELSE [raised |-> FALSE,
               self |-> [self EXCEPT !.incoming = Append(@, transition[1])]]

\* transition is None or a Transition
add_incoming_transition(self, transition) ==
    IF transition = None
    THEN [raised |-> FALSE, self |-> self]
    ELSE [raised |-> FALSE,
          self |-> [self EXCEPT !.incoming = Append(@, transition[1])]]

add_outgoing_transition_no_final_check(self, transition) ==
    IF transition = None
    THEN [raised |-> FALSE, self |-> self]
    ELSE [raised |-> FALSE,
          self |-> [self EXCEPT !.outgoing = Append(@, transition[1])]]

add_outgoing_transition(self, transition) ==
    IF transition = None
    THEN [raised |-> FALSE, self |-> self]
    ELSE IF self.type = "FINAL"
         THEN [raised |-> TRUE, self |-> self]
         ELSE [raised |-> FALSE,
               self |-> [self EXCEPT !.outgoing = Append(@, transition[1])]]

\* for transition in list: if name == transition.name: ...; break
RECURSIVE find_transition(_, _)
find_transition(list, name) ==
    IF list = <<>>
    THEN None
    ELSE IF name = Head(list).name
         THEN Some(Head(list))
         ELSE find_transition(Tail(list), name)

get_incoming_transtition_any_role(self, name) ==
    find_transition(self.incoming, name)

get_incoming_transtition(self, name) ==
    IF self.type # "INIT"
    THEN find_transition(self.incoming, name)
    ELSE None

get_outgoing_transtition(self, name) ==
    IF self.type # "FINAL"
    THEN find_transition(self.outgoing, name)
    ELSE None

get_incoming_transitions_list(self) == self.incoming

get_outgoing_transitions_list(self) == self.outgoing

get_outgoing_emission_list_and_tau(self) ==
    SelectSeq(self.outgoing, LAMBDA transition : transition.type # "RECEPTION")

get_outgoing_emission_list(self) ==
    SelectSeq(self.outgoing, LAMBDA transition : transition.type = "EMISSION")

get_outgoing_reception_list(self) ==
    SelectSeq(self.outgoing, LAMBDA transition : transition.type = "RECEPTION")

get_outgoing_tau_list(self) ==
    SelectSeq(self.outgoing, LAMBDA transition : transition.type = "TAU")

get_imcoming_tau_list(self) ==
    SelectSeq(self.incoming, LAMBDA transition : transition.type = "TAU")

get_num_of_incoming_transistions(self) == Len(self.incoming)

get_num_of_outgoing_transitions(self) == Len(self.outgoing)

is_final_state(self) == self.type = "FINAL"

is_initial_state(self) == self.type = "INIT"

get_name(self) == self.name

\* The transitions the loader attaches to states: two names, every type.
TransitionNames == {"t1", "t2"}

TPool ==
    {Transition_init(name, type, "S1", <<>>).self[1] :
        name \in TransitionNames, type \in TransitionType}

LookupNames == TransitionNames \cup {"t9"}

OptLists(n) == {None} \cup {Some(l) : l \in SeqsUpTo(TPool, n)}

OptTransitions == {None} \cup {Some(tr) : tr \in TPool}

\* Each behaviour follows one State from its constructor call onwards.
NewState ==
    /\ sCall = NoCall
    /\ \E type \in StateType, incoming \in OptLists(MaxList) :
       \E outgoing \in OptLists(MaxList - (IF incoming = None THEN 0 ELSE Len(incoming[1]))) :
        LET r == State_init("S0", type, incoming, outgoing)
        IN  /\ s' = r.self
            /\ sPre' = None
            /\ sCall' = [op |-> "State", name |-> "S0", type |-> type,
                         incoming |-> incoming, outgoing |-> outgoing]
            /\ sRet' = [raised |-> r.raised, value |-> None]
    /\ UNCHANGED <<tvars, gvars>>

Attached(self) == Len(self.incoming) + Len(self.outgoing)

AddIncomingTransition ==
    /\ s # None
    /\ Attached(s[1]) < MaxList
    /\ \E transition \in OptTransitions :
        LET r == add_incoming_transition(s[1], transition)
        IN  /\ s' = Some(r.self)
            /\ sCall' = [op |-> "add_incoming_transition", transition |-> transition]
            /\ sRet' = [raised |-> r.raised, value |-> None]
    /\ sPre' = s
    /\ UNCHANGED <<tvars, gvars>>

AddOutgoingTransition ==
    /\ s # None
    /\ Attached(s[1]) < MaxList
    /\ \E transition \in OptTransitions :
        LET r == add_outgoing_transition(s[1], transition)
        IN  /\ s' = Some(r.self)
            /\ sCall' = [op |-> "add_outgoing_transition", transition |-> transition]
            /\ sRet' = [raised |-> r.raised, value |-> None]
    /\ sPre' = s
    /\ UNCHANGED <<tvars, gvars>>

\* A query: the State is left as it is, the result is recorded.
Query(call, value) ==
    /\ sCall' = call
    /\ sRet' = [raised |-> FALSE, value |-> value]
    /\ sPre' = s
    /\ UNCHANGED <<s, tvars, gvars>>

GetIncomingTransition ==
    /\ s # None
    /\ \E name \in LookupNames :
        Query([op |-> "get_incoming_transtition", name |-> name],
              get_incoming_transtition(s[1], name))

GetOutgoingTransition ==
    /\ s # None
    /\ \E name \in LookupNames :
        Query([op |-> "get_outgoing_transtition", name |-> name],
              get_outgoing_transtition(s[1], name))

GetOutgoingTransitionsList ==
    /\ s # None
    /\ Query([op |-> "get_outgoing_transitions_list"],
             get_outgoing_transitions_list(s[1]))

GetOutgoingEmissionList ==
    /\ s # None
    /\ Query([op |-> "get_outgoing_emission_list"],
             get_outgoing_emission_list(s[1]))

GetOutgoingReceptionList ==
    /\ s # None
    /\ Query([op |-> "get_outgoing_reception_list"],
             get_outgoing_reception_list(s[1]))

GetOutgoingTauList ==
    /\ s # None
    /\ Query([op |-> "get_outgoing_tau_list"], get_outgoing_tau_list(s[1]))

GetNumOfIncomingTransitions ==
    /\ s # None
    /\ Query([op |-> "get_num_of_incoming_transistions"],
             get_num_of_incoming_transistions(s[1]))

\* ------------------------------------------------------------------- Graph

Graph_init(name, states) ==
    [raised |-> FALSE,
     self |-> Some([name |-> name,
                    states |-> IF states = None THEN <<>> ELSE states[1]])]

\* state is None or a State
add_state(self, state) ==
    IF state # None
    THEN [self EXCEPT !.states = Append(@, state[1])]
    ELSE self

RECURSIVE get_state_last_loop(_, _, _)
get_state_last_loop(states, state_name, ret_state) ==
    IF states = <<>>
    THEN ret_state
    ELSE get_state_last_loop(Tail(states), state_name,
                             IF state_name = get_name(Head(states))
                             THEN Some(Head(states)) ELSE ret_state)

get_state_last_match(self, state_name) ==
    get_state_last_loop(self.states, state_name, None)

\* for state in self._states: if state_name == state.get_name(): ...; break
RECURSIVE get_state_loop(_, _)
get_state_loop(states, state_name) ==
    IF states = <<>>
    THEN None
    ELSE IF state_name = get_name(Head(states))
         THEN Some(Head(states))
         ELSE get_state_loop(Tail(states), state_name)

get_state(self, state_name) ==
    get_state_loop(self.states, state_name)

get_states_list(self) == self.states

\* The states the loader registers: two names, every type, so that two
\* states of one name can be told apart.
StateNames == {"S0", "S1"}

SPool ==
    {State_init(name, type, None, None).self[1] :
        name \in StateNames, type \in StateType}

StateLookupNames == StateNames \cup {"S9"}

OptStates == {None} \cup {Some(st) : st \in SPool}

\* Each behaviour follows one Graph from its constructor call onwards.
NewGraph ==
    /\ gCall = NoCall
    /\ \E states \in {None} \cup {Some(l) : l \in SeqsUpTo(SPool, MaxStates)} :
        LET r == Graph_init("G", states)
        IN  /\ g' = r.self
            /\ gInserted' = (IF states = None THEN <<>> ELSE states[1])
            /\ gCall' = [op |-> "Graph", name |-> "G", states |-> states]
            /\ gRet' = [raised |-> r.raised, value |-> None]
    /\ UNCHANGED <<tvars, svars>>

AddState ==
    /\ g # None
    /\ Len(g[1].states) < MaxStates
    /\ \E state \in OptStates :
        /\ g' = Some(add_state(g[1], state))
        /\ gInserted' = (IF state = None THEN gInserted ELSE Append(gInserted, state[1]))
        /\ gCall' = [op |-> "add_state", state |-> state]
        /\ gRet' = [raised |-> FALSE, value |-> None]
    /\ UNCHANGED <<tvars, svars>>

GetState ==
    /\ g # None
    /\ \E state_name \in StateLookupNames :
        /\ gCall' = [op |-> "get_state", state_name |-> state_name]
        /\ gRet' = [raised |-> FALSE, value |-> get_state(g[1], state_name)]
    /\ UNCHANGED <<g, gInserted, tvars, svars>>

GetStatesList ==
    /\ g # None
    /\ gCall' = [op |-> "get_states_list"]
    /\ gRet' = [raised |-> FALSE, value |-> get_states_list(g[1])]
    /\ UNCHANGED <<g, gInserted, tvars, svars>>

\* ---------------------------------------------------------- specifications

InitVars ==
    /\ t = None /\ tCall = NoCall /\ tRet = NoRet
    /\ s = None /\ sPre = None /\ sCall = NoCall /\ sRet = NoRet
    /\ g = None /\ gInserted = <<>> /\ gCall = NoCall /\ gRet = NoRet

NextT == NewTransition \/ GetParamType \/ GetDataTypes

SpecT == InitVars /\ [][NextT]_vars

NextS ==
    \/ NewState
    \/ AddIncomingTransition
    \/ AddOutgoingTransition
    \/ GetIncomingTransition
    \/ GetOutgoingTransition
    \/ GetOutgoingTransitionsList
    \/ GetOutgoingEmissionList
    \/ GetOutgoingReceptionList
    \/ GetOutgoingTauList
    \/ GetNumOfIncomingTransitions

SpecS == InitVars /\ [][NextS]_vars

NextG == NewGraph \/ AddState \/ GetState \/ GetStatesList

SpecG == InitVars /\ [][NextG]_vars

\* ------------------------------------------------------ vocabulary of claims

Min(S) == CHOOSE x \in S : \A y \in S : x <= y

Colons(token) == {i \in 1..Len(token) : token[i] = ":"}

\* A "name:type" token: one ":" with a name before it and a type after it.
WellFormed(token) ==
    /\ Cardinality(Colons(token)) = 1
    /\ \A i \in Colons(token) : 1 < i /\ i < Len(token)

\* The type of a well-formed token: what follows its ":".
TypeOf(token) == SubSeq(token, Min(Colons(token)) + 1, Len(token))

AllWellFormed(params) == \A i \in 1..Len(params) : WellFormed(params[i])

NoDuplicates(q) == \A i, j \in 1..Len(q) : q[i] = q[j] => i = j

FirstPos(q, x) == Min({i \in 1..Len(q) : q[i] = x})

Count(x, q) == Cardinality({i \in 1..Len(q) : q[i] = x})

\* r is the sub-sequence of list, in list's order, of exactly the
\* transitions of the given type.
IsFilterOf(r, list, type) ==
    \E f \in [1..Len(r) -> 1..Len(list)] :
        /\ \A i, j \in 1..Len(r) : i < j => f[i] < f[j]
        /\ \A i \in 1..Len(r) : r[i] = list[f[i]]
        /\ {f[i] : i \in 1..Len(r)} = {j \in 1..Len(list) : list[j].type = type}

\* The first element of list with the given name, or None.
FirstNamed(list, name) ==
    LET hits == {i \in 1..Len(list) : list[i].name = name}
    IN  IF hits = {} THEN None ELSE Some(list[Min(hits)])

\* ------------------------------------------------------------------ claims

\* C1 as stated: on a Final State every add_outgoing_transition call fails
\* with an error and leaves both lists unchanged, so outgoing stays empty.
C1_EveryCallOnFinalFails ==
    /\ (s # None /\ s[1].type = "FINAL") => s[1].outgoing = <<>>
    /\ (sCall.op = "add_outgoing_transition" /\ sPre[1].type = "FINAL") =>
           sRet.raised /\ s = sPre

\* C1 amended: a Final State has an empty outgoing list after any sequence of
\* add_outgoing_transition calls on it; such a call fails with an error when
\* its transition is not None and returns normally when it is None, and in
\* both cases leaves the outgoing and the incoming list unchanged.
C1_FinalHasNoOutgoing ==
    /\ (s # None /\ s[1].type = "FINAL") => s[1].outgoing = <<>>
    /\ (sCall.op = "add_outgoing_transition" /\ sPre[1].type = "FINAL") =>
           /\ sRet.raised <=> (sCall.transition # None)
           /\ s = sPre

C1_Witness ==
    /\ sCall.op = "add_outgoing_transition"
    /\ sCall.transition # None
    /\ sPre[1].type = "FINAL"
    /\ sPre[1].incoming # <<>>
    /\ sRet.raised

\* C2: constructing a Transition fails exactly when its type is TAU and its
\* params are not empty; otherwise it yields the transition with the given
\* fields, so every constructed TAU transition has empty params.
C2_TauHasNoParams ==
    /\ tCall.op = "Transition" =>
           /\ tRet.raised <=> (tCall.type = "TAU" /\ tCall.params # <<>>)
           /\ tRet.raised => t = None
           /\ ~tRet.raised =>
                  t = Some([name |-> tCall.name, type |-> tCall.type,
                            next_state |-> tCall.next_state,
                            params |-> tCall.params])
    /\ (t # None /\ t[1].type = "TAU") => t[1].params = <<>>

C2_Witness ==
    /\ tCall.op = "Transition"
    /\ tCall.type = "TAU"
    /\ tCall.params # <<>>
    /\ tRet.raised
    /\ t = None

\* C3: constructing a State fails exactly when (type is INIT and the given
\* incoming list is not empty) or (type is FINAL and the given outgoing list
\* is not empty); otherwise it yields the State with the given lists, each
\* empty when omitted.
C3_StateConstruction ==
    sCall.op = "State" =>
        LET inc == IF sCall.incoming = None THEN <<>> ELSE sCall.incoming[1]
            out == IF sCall.outgoing = None THEN <<>> ELSE sCall.outgoing[1]
        IN  /\ sRet.raised <=> \/ (sCall.type = "INIT" /\ Len(inc) > 0)
                               \/ (sCall.type = "FINAL" /\ Len(out) > 0)
            /\ sRet.raised => s = None
            /\ ~sRet.raised =>
                   /\ s # None
                   /\ s[1].name = sCall.name
                   /\ s[1].type = sCall.type
                   /\ s[1].incoming = inc
                   /\ s[1].outgoing = out

C3_Witness ==
    /\ sCall.op = "State"
    /\ sCall.type = "INIT"
    /\ sCall.incoming # None
    /\ sCall.incoming[1] # <<>>
    /\ sRet.raised
    /\ s = None

\* C4 as stated: get_param_type returns the type of the FIRST token, in
\* declaration order, that contains param_name, and None when no token does.
C4_FirstMatchWins ==
    (tCall.op = "get_param_type" /\ AllWellFormed(t[1].params)) =>
        LET params == t[1].params
            hits == {i \in 1..Len(params) : contains(tCall.param_name, params[i])}
        IN  /\ ~tRet.raised
            /\ tRet.value = IF hits = {} THEN None
                            ELSE Some(TypeOf(params[Min(hits)]))

\* C5: the emission, reception and tau lists of a State are sub-sequences of
\* its outgoing list in its order, each holding exactly the transitions of
\* its type; they are pairwise disjoint and together hold every outgoing
\* transition as often as the outgoing list does.
C5_Classification ==
    s # None =>
        LET all == get_outgoing_transitions_list(s[1])
            emission == get_outgoing_emission_list(s[1])
            reception == get_outgoing_reception_list(s[1])
            tau == get_outgoing_tau_list(s[1])
        IN  /\ IsFilterOf(emission, all, "EMISSION")
            /\ IsFilterOf(reception, all, "RECEPTION")
            /\ IsFilterOf(tau, all, "TAU")
            /\ Range(emission) \cap Range(reception) = {}
            /\ Range(emission) \cap Range(tau) = {}
            /\ Range(reception) \cap Range(tau) = {}
            /\ \A x \in TPool :
                   Count(x, emission) + Count(x, reception) + Count(x, tau)
                       = Count(x, all)
            /\ sCall.op = "get_outgoing_emission_list" =>
                   IsFilterOf(sRet.value, s[1].outgoing, "EMISSION")
            /\ sCall.op = "get_outgoing_reception_list" =>
                   IsFilterOf(sRet.value, s[1].outgoing, "RECEPTION")
            /\ sCall.op = "get_outgoing_tau_list" =>
                   IsFilterOf(sRet.value, s[1].outgoing, "TAU")
            /\ sCall.op = "get_outgoing_transitions_list" =>
                   sRet.value = s[1].outgoing

C5_Witness ==
    /\ sCall.op = "get_outgoing_emission_list"
    /\ Len(s[1].outgoing) = 3
    /\ {s[1].outgoing[i].type : i \in 1..3} = TransitionType
    /\ Len(sRet.value) = 1

\* C6: for params that are all well-formed, get_data_types returns every
\* type once, in the order of the types' first occurrences in params (and
\* the empty sequence for empty params).
C6_DataTypesFirstSeen ==
    (tCall.op = "get_data_types" /\ AllWellFormed(t[1].params)) =>
        LET params == t[1].params
            types == [i \in 1..Len(params) |-> TypeOf(params[i])]
            r == tRet.value
        IN  /\ ~tRet.raised
            /\ NoDuplicates(r)
            /\ Range(r) = Range(types)
            /\ \A i, j \in 1..Len(r) :
                   i < j => FirstPos(types, r[i]) < FirstPos(types, r[j])

\* ["a:i", "b:s", "c:i"] yields ["i", "s"]
C6_Witness ==
    /\ tCall.op = "get_data_types"
    /\ t[1].params = << <<"a", ":", "i">>, <<"b", ":", "s">>, <<"c", ":", "i">> >>
    /\ tRet.value = << <<"i">>, <<"s">> >>

\* C7: get_incoming_transtition returns the first incoming transition of the
\* given name, get_outgoing_transtition the first outgoing one; each returns
\* None, without raising, when there is none, and always on an INIT state
\* (incoming) or a FINAL state (outgoing), whatever the list holds.
C7_Lookup ==
    /\ sCall.op = "get_incoming_transtition" =>
           /\ ~sRet.raised
           /\ s = sPre
           /\ sRet.value = IF s[1].type = "INIT" THEN None
                           ELSE FirstNamed(s[1].incoming, sCall.name)
    /\ sCall.op = "get_outgoing_transtition" =>
           /\ ~sRet.raised
           /\ s = sPre
           /\ sRet.value = IF s[1].type = "FINAL" THEN None
                           ELSE FirstNamed(s[1].outgoing, sCall.name)

\* an INIT state that was given an incoming transition of the name looked up
C7_Witness ==
    /\ sCall.op = "get_incoming_transtition"
    /\ s[1].type = "INIT"
    /\ FirstNamed(s[1].incoming, sCall.name) # None
    /\ sRet.value = None

\* C8: the states of a Graph are the states put into it (at construction,
\* then by add_state, None ignored) in insertion order, and get_state
\* returns the earliest of them with the given name, or None.
C8_GraphLookup ==
    /\ g # None => get_states_list(g[1]) = gInserted
    /\ gCall.op = "get_states_list" => gRet.value = gInserted
    /\ gCall.op = "get_state" =>
           /\ ~gRet.raised
           /\ gRet.value = FirstNamed(gInserted, gCall.state_name)

\* two states of one name: the earlier one is returned, not the later one
C8_Witness ==
    /\ gCall.op = "get_state"
    /\ \E i, j \in 1..Len(gInserted) :
           /\ i < j
           /\ gInserted[i].name = gCall.state_name
           /\ gInserted[j].name = gCall.state_name
           /\ gInserted[i] # gInserted[j]
           /\ gRet.value = Some(gInserted[i])
           /\ \A k \in 1..(i - 1) : gInserted[k].name # gCall.state_name

\* C9 as stated: a Transition with a token that has no ":" is accepted at
\* construction, and neither get_param_type nor get_data_types raises on it.
C9_MalformedTokenNeverRaises ==
    /\ (tCall.op = "Transition" /\ tCall.type # "TAU") => ~tRet.raised
    /\ ( /\ tCall.op \in {"get_param_type", "get_data_types"}
         /\ \E i \in 1..Len(t[1].params) : Colons(t[1].params[i]) = {} )
       => ~tRet.raised

====
